---- MODULE Spec2Model ----
(***************************************************************************)
(* Model of the sqlx query-execution core: the Postgres cursor             *)
(* (sqlx-core/src/postgres/cursor.rs) with its per-connection statement    *)
(* cache, and the composite (record) codec                                 *)
(* (sqlx-core/src/postgres/types/record.rs).                               *)
(***************************************************************************)
EXTENDS Integers, Sequences, FiniteSets, TLC

\* ------------------------------------------------------------------------
\* Bounds of the model
\* ------------------------------------------------------------------------
MaxCursors == 2
MaxCalls == 4
MaxRows == 2
MaxFields == 3

\* ------------------------------------------------------------------------
\* Values
\* ------------------------------------------------------------------------
\* Option<T>: None, or Some(v)
None == << >>

Some(v) == << v >>

unwrap(opt) == opt[1]

NoError == "NoError"

Texts == {"q1", "q2"}

\* Option<PgArguments>: None is a simple query, "args" a parameterised one
ArgumentsSet == {None, Some("args")}

PendingQueries == [text : Texts, arguments : ArgumentsSet]

\* Message tags of the Postgres wire subset
ParseComplete == [tag |-> "ParseComplete"]
BindComplete == [tag |-> "BindComplete"]
NoData == [tag |-> "NoData"]
CommandComplete == [tag |-> "CommandComplete"]
ReadyForQuery == [tag |-> "ReadyForQuery"]
NoticeResponse == [tag |-> "NoticeResponse"]
RowDescription(fields) == [tag |-> "RowDescription", fields |-> fields]
DataRow(data) == [tag |-> "DataRow", data |-> data]

\* The result shape the backend reports for a query text: a sequence of
\* fields, each with an optional name and a wire format.
DescOf(text) ==
    IF text = "q1"
    THEN << [name |-> Some("id"), type_format |-> "Binary"],
            [name |-> None, type_format |-> "Text"] >>
    ELSE << [name |-> Some("id"), type_format |-> "Text"],
            [name |-> Some("n"), type_format |-> "Binary"],
            [name |-> Some("id"), type_format |-> "Binary"] >>

\* ------------------------------------------------------------------------
\* State
\* ------------------------------------------------------------------------
VARIABLES
    stream,                   \* conn.stream: messages received and not yet read
    cache_statement_columns,  \* conn.cache_statement_columns: StatementId -> Arc
    cache_statement_formats,  \* conn.cache_statement_formats: StatementId -> Arc
    arcs,                     \* the Arc allocations; an Arc is an index into arcs
    pg_cursor,                \* the PgCursor using the connection, if any
    hist,                     \* what was observed of that cursor so far
    created,                  \* the number of cursors created so far
    past,                     \* what is remembered of the dropped cursors
    input,                    \* the record given to the codec: its field values
    buf,                      \* the Vec<u8> the record is encoded into
    start,                    \* the length of buf before PgRecordEncoder::new
    encoder,                  \* PgRecordEncoder {beg, num}, once created
    decoder,                  \* PgRecordDecoder {value}, once created
    decoded,                  \* the results of the decode calls, in order
    phase,                    \* where the codec run stands
    received,                 \* the PgValue a record is decoded from
    targets,                  \* the types the decode calls decode into
    handed,                   \* what each decode call gave the field decoder
    mysql_row,                \* a MySqlRow {row, columns, binary}
    mysql_cursor,             \* the MySqlCursor, if any
    sqlite_value,             \* a SqliteValue
    outcome                   \* the results of the calls on these, in order

cursorVars == << stream, cache_statement_columns, cache_statement_formats,
                 arcs, pg_cursor, hist, created, past >>

codecVars == << input, buf, start, encoder, decoder, decoded, phase,
                received, targets, handed >>

valueVars == << mysql_row, mysql_cursor, sqlite_value, outcome >>

vars == << stream, cache_statement_columns, cache_statement_formats, arcs,
           pg_cursor, hist, created, past,
           input, buf, start, encoder, decoder, decoded, phase,
           received, targets, handed,
           mysql_row, mysql_cursor, sqlite_value, outcome >>

\* HashMap helpers
EmptyMap == << >>

insert(m, k, v) == [x \in (DOMAIN m) \cup {k} |-> IF x = k THEN v ELSE m[x]]

\* A lookup that never finds the key
contains_key_never(m, k) == FALSE


contains_key(m, k) == k \in DOMAIN m

\* Arc::new: allocates; the new Arc is the index of the appended value
Arc_new(heap, value) == [heap |-> Append(heap, value), arc |-> Len(heap) + 1]

\* Option::as_ref in place of Option::take: the query stays in the cursor
take_peek(opt) == [value |-> opt, left |-> opt]


\* Option::take
take(opt) == [value |-> opt, left |-> None]

\* Executor::run(query, arguments): a simple query has no statement
\* identifier, a parameterised query is prepared under the identifier of
\* its text.
StatementOf(text) == IF text = "q1" THEN 1 ELSE 2

StatementIds == { StatementOf(text) : text \in Texts }

run(query) ==
    IF query.arguments = None THEN None ELSE Some(StatementOf(query.text))

\* ------------------------------------------------------------------------
\* describe (cursor.rs 70-110)
\* ------------------------------------------------------------------------
RECURSIVE describe_read(_)
describe_read(s) ==
    IF s = << >>
    THEN [res |-> "Err", err |-> "Io", description |-> None, rest |-> s]
    ELSE LET m == Head(s) IN
         CASE m.tag \in {"ParseComplete", "BindComplete"} ->
                describe_read(Tail(s))
           [] m.tag = "RowDescription" ->
                [res |-> "Ok", err |-> NoError, description |-> Some(m.fields),
                 rest |-> Tail(s)]
           [] m.tag = "NoData" ->
                [res |-> "Ok", err |-> NoError, description |-> None,
                 rest |-> Tail(s)]
           [] OTHER ->
                [res |-> "Err", err |-> "Protocol", description |-> None,
                 rest |-> Tail(s)]

\* A column map in which the first field of a name keeps the name
RECURSIVE describe_columns_first(_, _)
describe_columns_first(fields, n) ==
    IF n = 0 THEN EmptyMap
    ELSE LET columns == describe_columns_first(fields, n - 1)
             field == fields[n]
         IN IF field.name # None /\ unwrap(field.name) \notin DOMAIN columns
            THEN insert(columns, unwrap(field.name), n - 1)
            ELSE columns

RECURSIVE describe_columns(_, _)
describe_columns(fields, n) ==
    IF n = 0 THEN EmptyMap
    ELSE LET columns == describe_columns(fields, n - 1)
             field == fields[n]
         IN IF field.name # None
            THEN insert(columns, unwrap(field.name), n - 1)
            ELSE columns

\* A format list that lacks the format of the last field
describe_formats_short(fields) ==
    [i \in 1..(Len(fields) - 1) |-> fields[i].type_format]

describe_formats(fields) == [i \in 1..Len(fields) |-> fields[i].type_format]

\* The second half of describe (cursor.rs 93-109), r being what the loop
\* ended with
describe_build(r) ==
    IF r.res = "Err"
    THEN [ok |-> FALSE, err |-> r.err, columns |-> EmptyMap,
          formats |-> << >>, rest |-> r.rest]
    ELSE IF r.description # None
    THEN [ok |-> TRUE, err |-> NoError,
          columns |-> describe_columns(unwrap(r.description),
                                       Len(unwrap(r.description))),
          formats |-> describe_formats(unwrap(r.description)),
          rest |-> r.rest]
    ELSE [ok |-> TRUE, err |-> NoError, columns |-> EmptyMap,
          formats |-> << >>, rest |-> r.rest]

describe(s) == describe_build(describe_read(s))

\* Two Arcs for a described result: Arc::new(columns), Arc::from(formats)
Arc_pair(heap, d) ==
    [heap |-> heap \o << d.columns, d.formats >>,
     columns |-> Len(heap) + 1, formats |-> Len(heap) + 2]

DescribeFailed(conn, d) ==
    [ok |-> FALSE, err |-> d.err, columns |-> 0, formats |-> 0,
     describes |-> 1, conn |-> [conn EXCEPT !.stream = d.rest]]

\* A miss branch that stores an entry before it looks at the result of
\* describe: a failed describe leaves an empty entry behind
get_or_describe_store_eager(conn, statement, d) ==
    LET a == Arc_pair(conn.arcs, d)
        cc == insert(conn.cache_statement_columns, statement, a.columns)
        cf == insert(conn.cache_statement_formats, statement, a.formats)
    IN [ok |-> d.ok, err |-> d.err,
        columns |-> IF d.ok THEN cc[statement] ELSE 0,
        formats |-> IF d.ok THEN cf[statement] ELSE 0,
        describes |-> 1,
        conn |-> [stream |-> d.rest,
                  cache_statement_columns |-> cc,
                  cache_statement_formats |-> cf,
                  arcs |-> a.heap]]

\* The miss branch of get_or_describe (cursor.rs 120-132), d being the
\* result of describe
get_or_describe_store(conn, statement, d) ==
    IF ~d.ok
    THEN DescribeFailed(conn, d)
    ELSE LET a == Arc_pair(conn.arcs, d)
             cc == insert(conn.cache_statement_columns, statement, a.columns)
             cf == insert(conn.cache_statement_formats, statement, a.formats)
         IN [ok |-> TRUE, err |-> NoError,
             columns |-> cc[statement], formats |-> cf[statement],
             describes |-> 1,
             conn |-> [stream |-> d.rest,
                       cache_statement_columns |-> cc,
                       cache_statement_formats |-> cf,
                       arcs |-> a.heap]]

\* get_or_describe without the look-up: it describes and stores every time
get_or_describe_always(conn, statement) ==
    get_or_describe_store(conn, statement, describe(conn.stream))

\* ------------------------------------------------------------------------
\* get_or_describe (cursor.rs 112-133)
\* conn is [stream, cache_statement_columns, cache_statement_formats, arcs]
\* ------------------------------------------------------------------------
get_or_describe(conn, statement) ==
    IF \/ ~contains_key(conn.cache_statement_columns, statement)
       \/ ~contains_key(conn.cache_statement_formats, statement)
    THEN get_or_describe_store(conn, statement, describe(conn.stream))
    ELSE [ok |-> TRUE, err |-> NoError,
          columns |-> conn.cache_statement_columns[statement],
          formats |-> conn.cache_statement_formats[statement],
          describes |-> 0,
          conn |-> conn]

\* The unprepared branch of next (cursor.rs 151-155), d being the result of
\* describe
describe_wrap(conn, d) ==
    IF ~d.ok
    THEN DescribeFailed(conn, d)
    ELSE LET a == Arc_pair(conn.arcs, d)
         IN [ok |-> TRUE, err |-> NoError,
             columns |-> a.columns, formats |-> a.formats,
             describes |-> 1,
             conn |-> [conn EXCEPT !.stream = d.rest, !.arcs = a.heap]]

describe_unprepared(conn) == describe_wrap(conn, describe(conn.stream))

\* A dispatch that sends the unprepared query through the statement cache
\* too, under the identifier 0
execute_describe_cached(conn, statement) ==
    get_or_describe(conn, IF statement # None THEN unwrap(statement) ELSE 0)

\* Dispatch on the statement identifier (cursor.rs 147-155)
execute_describe(conn, statement) ==
    IF statement # None
    THEN get_or_describe(conn, unwrap(statement))
    ELSE describe_unprepared(conn)

\* ------------------------------------------------------------------------
\* The steady-state loop of next (cursor.rs 161-190)
\* ------------------------------------------------------------------------
\* A row that owns a copy of the metadata instead of sharing the cursor's:
\* the negated index stands for the allocation of the copy
PgRow_copied(columns, formats, data) ==
    [columns |-> 0 - columns, formats |-> 0 - formats, data |-> data]


Ok_None == [kind |-> "None", err |-> NoError, row |-> None]

Ok_Some(row) == [kind |-> "Row", err |-> NoError, row |-> Some(row)]

Err(e) == [kind |-> "Err", err |-> e, row |-> None]

PgRow(columns, formats, data) ==
    [columns |-> columns, formats |-> formats, data |-> data]

RECURSIVE next_loop(_, _)
next_loop(cursor, s) ==
    IF s = << >>
    THEN [result |-> Err("Io"), rest |-> s]
    ELSE LET m == Head(s) IN
         CASE m.tag \in {"ParseComplete", "BindComplete"} ->
                next_loop(cursor, Tail(s))
           [] m.tag = "CommandComplete" ->
                [result |-> Ok_None, rest |-> Tail(s)]
           [] m.tag = "DataRow" ->
                [result |-> Ok_Some(PgRow(cursor.columns, cursor.formats,
                                          m.data)),
                 rest |-> Tail(s)]
           [] OTHER ->
                [result |-> Err("Protocol"), rest |-> Tail(s)]

\* ------------------------------------------------------------------------
\* next (cursor.rs 135-191), after the connection was resolved.
\* run_ok: whether conn.run succeeds; response: what the backend sends for
\* the query that run wrote.
\* ------------------------------------------------------------------------
NoExec == [ran |-> FALSE, statement |-> None, describes |-> 0,
           published |-> FALSE]

\* The end of a next() call: l is what the loop returned
next_return(cursor, conn, l, exec) ==
    [cursor |-> cursor, conn |-> [conn EXCEPT !.stream = l.rest],
     result |-> l.result, exec |-> exec]

\* next from the assignment of the metadata on (cursor.rs 157-190), d
\* being the result of the describe step
next_described(cursor, statement, d) ==
    IF ~d.ok
    THEN [cursor |-> cursor, conn |-> d.conn, result |-> Err(d.err),
          exec |-> [ran |-> TRUE, statement |-> statement,
                    describes |-> d.describes, published |-> FALSE]]
    ELSE next_return([cursor EXCEPT !.columns = d.columns,
                                    !.formats = d.formats],
                     d.conn,
                     next_loop([cursor EXCEPT !.columns = d.columns,
                                              !.formats = d.formats],
                               d.conn.stream),
                     [ran |-> TRUE, statement |-> statement,
                      describes |-> d.describes, published |-> TRUE])

\* next once the query was taken out of the cursor (cursor.rs 144-190)
next_execute(cursor, conn, query, run_ok, response) ==
    IF ~run_ok
    THEN [cursor |-> cursor, conn |-> conn, result |-> Err("Io"),
          exec |-> [NoExec EXCEPT !.ran = TRUE]]
    ELSE next_described(cursor, run(query),
                        execute_describe(
                            [conn EXCEPT !.stream = conn.stream \o response],
                            run(query)))

\* ------------------------------------------------------------------------
\* next (cursor.rs 135-191), after the connection was resolved.
\* run_ok: whether conn.run succeeds; response: what the backend sends for
\* the query that run wrote.
\* ------------------------------------------------------------------------
next(cursor, conn, run_ok, response) ==
    IF take(cursor.query).value # None
    THEN next_execute([cursor EXCEPT !.query = take(cursor.query).left],
                      conn, unwrap(take(cursor.query).value), run_ok,
                      response)
    ELSE next_return([cursor EXCEPT !.query = take(cursor.query).left], conn,
                     next_loop(cursor, conn.stream), NoExec)

\* ------------------------------------------------------------------------
\* What the backend may send in answer to a query, the query of cursor
\* number i: the acknowledgements of the extended protocol, a description
\* of the result or none, data rows with acknowledgements and notices
\* between them, and the end of the query cycle.
\* ------------------------------------------------------------------------
Acks(query) ==
    IF query.arguments = None THEN << >> ELSE << ParseComplete, BindComplete >>

DescPart(text) == { << >>, << RowDescription(DescOf(text)) >>, << NoData >> }

\* Between the description and command-complete: up to MaxRows data rows,
\* and possibly one other message before, between or after them
Extras == {"BindComplete", "NoticeResponse"}

Rows(n) == [k \in 1..n |-> "DataRow"]

InsertAt(shape, p, tag) ==
    SubSeq(shape, 1, p) \o << tag >> \o SubSeq(shape, p + 1, Len(shape))

BodyShapes ==
    UNION { {Rows(n)} \cup { InsertAt(Rows(n), p, t) :
                                p \in 0..n, t \in Extras } :
            n \in 0..MaxRows }

RowsUpTo(shape, k) == Cardinality({j \in 1..k : shape[j] = "DataRow"})

Body(i, shape) ==
    [k \in 1..Len(shape) |->
        IF shape[k] = "DataRow"
        THEN DataRow([owner |-> i, seq |-> RowsUpTo(shape, k)])
        ELSE [tag |-> shape[k]]]

Term == << CommandComplete, ReadyForQuery >>

Responses(i, query) ==
    { Acks(query) \o d \o Body(i, b) \o Term :
        d \in DescPart(query.text), b \in BodyShapes }

\* What a response is made of: whether it describes the result and by
\* which message, how many data rows it has, and whether anything but data
\* rows and acknowledgements precedes its command-complete message
TagsOf(response) == { response[k].tag : k \in 1..Len(response) }

Descriptions(response) ==
    SelectSeq(response, LAMBDA m : m.tag \in {"RowDescription", "NoData"})

ShapeOf(response) ==
    [described |-> TagsOf(response) \cap {"RowDescription", "NoData"} # {},
     first |-> IF Descriptions(response) = << >> THEN None
               ELSE Some(Head(Descriptions(response))),
     rows |-> Cardinality({k \in 1..Len(response) :
                              response[k].tag = "DataRow"}),
     plain |-> "NoticeResponse" \notin TagsOf(response)]

\* ------------------------------------------------------------------------
\* Actions
\* ------------------------------------------------------------------------
Conn == [stream |-> stream,
         cache_statement_columns |-> cache_statement_columns,
         cache_statement_formats |-> cache_statement_formats,
         arcs |-> arcs]

live == pg_cursor # None

NoHist == [a \in {} |-> 0]

NoShape == [described |-> FALSE, first |-> None, rows |-> 0, plain |-> FALSE]

\* runs: calls of conn.run; sent: the run succeeded; statement: what it
\* returned; hit: the statement was in the cache; clean: the connection had
\* nothing unread when the query ran; shape: the shape of the response;
\* describes: describe sequences started; published: columns and formats
\* were assigned; outcomes: what the next() calls returned, in order
NewHist ==
    [runs |-> 0, sent |-> FALSE, statement |-> None, hit |-> FALSE,
     clean |-> FALSE, shape |-> NoShape, describes |-> 0,
     published |-> FALSE, outcomes |-> << >>]

NoPast ==
    [id \in StatementIds |->
        [published |-> {}, described |-> 0, failed |-> FALSE]]

new_cursor(source, query) ==
    /\ ~live
    /\ created < MaxCursors
    /\ LET c == Arc_new(arcs, EmptyMap)
           f == Arc_new(c.heap, << >>)
       IN /\ arcs' = f.heap
          /\ pg_cursor' = Some([source |-> source, query |-> Some(query),
                                columns |-> c.arc, formats |-> f.arc])
    /\ hist' = NewHist
    /\ created' = created + 1
    /\ UNCHANGED << stream, cache_statement_columns, cache_statement_formats,
                    past >>
    /\ UNCHANGED << codecVars, valueVars >>

\* PgCursor::from_pool (cursor.rs 35-46)
from_pool == \E q \in PendingQueries : new_cursor("Pool", q)

\* PgCursor::from_connection (cursor.rs 49-61)
from_connection == \E q \in PendingQueries : new_cursor("Connection", q)

CanCall == live /\ Len(hist.outcomes) < MaxCalls

\* next that takes the pending query before it resolves the connection
next_unresolved_taken(cursor) ==
    [cursor |-> [cursor EXCEPT !.query = take(cursor.query).left],
     result |-> Err("Connectivity")]

\* next when resolve_by_ref fails (cursor.rs 135-138): the error is
\* returned by `?` before anything else is done
next_unresolved(cursor) == [cursor |-> cursor, result |-> Err("Connectivity")]

\* next() whose resolve_by_ref fails: the pool is closed or the checkout
\* fails (cursor.rs 138)
NextResolveErr ==
    /\ CanCall
    /\ unwrap(pg_cursor).source = "Pool"
    /\ pg_cursor' = Some(next_unresolved(unwrap(pg_cursor)).cursor)
    /\ hist' = [hist EXCEPT
          !.outcomes = Append(@, next_unresolved(unwrap(pg_cursor)).result)]
    /\ UNCHANGED << stream, cache_statement_columns, cache_statement_formats,
                    arcs, created, past >>
    /\ UNCHANGED << codecVars, valueVars >>

\* next() on a resolved connection (cursor.rs 135-191); run_ok and
\* response are read only by the call that executes the pending query.
NextApply(run_ok, response) ==
    \E n \in { next([unwrap(pg_cursor) EXCEPT !.source = "Connection"],
                    Conn, run_ok, response) } :
    \E sent \in { n.exec.ran /\ run_ok } :
       /\ pg_cursor' = Some(n.cursor)
       /\ stream' = n.conn.stream
       /\ cache_statement_columns' = n.conn.cache_statement_columns
       /\ cache_statement_formats' = n.conn.cache_statement_formats
       /\ arcs' = n.conn.arcs
       /\ hist' = [hist EXCEPT
            !.outcomes = Append(@, n.result),
            !.runs = @ + (IF n.exec.ran THEN 1 ELSE 0),
            !.sent = @ \/ sent,
            !.statement = IF sent THEN n.exec.statement ELSE @,
            !.hit = IF sent THEN /\ n.exec.statement # None
                                 /\ n.exec.describes = 0
                    ELSE @,
            !.clean = IF sent THEN stream = << >> ELSE @,
            !.shape = IF sent THEN ShapeOf(response) ELSE @,
            !.describes = @ + n.exec.describes,
            !.published = @ \/ n.exec.published]
       /\ UNCHANGED << created, past >>
       /\ UNCHANGED << codecVars, valueVars >>

\* The next() call that finds the pending query and executes it
NextExecute ==
    /\ CanCall
    /\ unwrap(pg_cursor).query # None
    /\ \/ NextApply(FALSE, << >>)
       \/ \E response \in Responses(created, unwrap(unwrap(pg_cursor).query)) :
             NextApply(TRUE, response)

\* A next() call after the query was taken: it blocks while the connection
\* has nothing to read
NextRead ==
    /\ CanCall
    /\ unwrap(pg_cursor).query = None
    /\ stream # << >>
    /\ NextApply(TRUE, << >>)

\* The cursor is dropped, exhausted or not; the connection is free for the
\* next cursor
Drop ==
    /\ live
    /\ pg_cursor' = None
    /\ hist' = NoHist
    /\ past' = IF hist.published /\ hist.statement # None
               THEN [past EXCEPT ![unwrap(hist.statement)] =
                       [published |-> @.published \cup
                                        {<< unwrap(pg_cursor).columns,
                                            unwrap(pg_cursor).formats >>},
                        described |-> @.described + hist.describes,
                        failed |-> @.failed]]
               ELSE IF hist.sent /\ hist.statement # None
               THEN [past EXCEPT ![unwrap(hist.statement)].failed = TRUE]
               ELSE past
    /\ UNCHANGED << stream, cache_statement_columns, cache_statement_formats,
                    arcs, created >>
    /\ UNCHANGED << codecVars, valueVars >>

\* ------------------------------------------------------------------------
\* The composite codec (record.rs)
\* ------------------------------------------------------------------------
\* Bytes are 0..255. The big-endian bytes of a number n >= 0 in w bytes
RECURSIVE be_bytes(_, _)
be_bytes(n, w) ==
    IF w = 0 THEN << >> ELSE Append(be_bytes(n \div 256, w - 1), n % 256)

\* The two's complement of a negative number is the bytewise complement of
\* that of -v - 1
to_be_bytes(v, w) ==
    IF v >= 0 THEN be_bytes(v, w)
    ELSE LET b == be_bytes((0 - v) - 1, w) IN [i \in 1..w |-> 255 - b[i]]

RECURSIVE be_value(_)
be_value(b) ==
    IF b = << >> THEN 0
    ELSE be_value(SubSeq(b, 1, Len(b) - 1)) * 256 + b[Len(b)]

\* The signed number of big-endian two's complement bytes
from_be_bytes(b) ==
    IF b[1] >= 128
    THEN 0 - (be_value([i \in 1..Len(b) |-> 255 - b[i]]) + 1)
    ELSE be_value(b)

\* The field types of the record (bool, i32, i64, f64, &str). A field is
\* [type, null, num, bytes]: a bool (0 or 1) and an integer are held in
\* num, an f64 (its 8 bytes) and a string (its bytes) in bytes; null marks
\* the SQL NULL of the type.
FieldTypes == {"bool", "i32", "i64", "f64", "str"}

Num(n) == [null |-> FALSE, num |-> n, bytes |-> << >>]

Bytes(b) == [null |-> FALSE, num |-> 0, bytes |-> b]

\* The None of an Option<T> target
Null == [null |-> TRUE, num |-> 0, bytes |-> << >>]

ValueOf(field) ==
    [null |-> field.null, num |-> field.num, bytes |-> field.bytes]

\* The type a decode call decodes into: T, or Option<T>
Required(type) == [type |-> type, optional |-> FALSE]

Optional(type) == [type |-> type, optional |-> TRUE]

\* The characters the text form of a record is made of, as UTF-8 bytes
NUL == 0

QUOTE == 34

LPAREN == 40

RPAREN == 41

COMMA == 44

\* T::type_info().oid()
oid(type) ==
    CASE type = "bool" -> 16
      [] type = "i32" -> 23
      [] type = "i64" -> 20
      [] type = "f64" -> 701
      [] type = "str" -> 25

\* <T as Encode<Postgres>>::encode: the bytes the value appends
value_encode(field) ==
    CASE field.type = "bool" -> << field.num >>
      [] field.type = "i32" -> to_be_bytes(field.num, 4)
      [] field.type = "i64" -> to_be_bytes(field.num, 8)
      [] field.type = "f64" -> field.bytes
      [] field.type = "str" -> field.bytes

DecodeOk(v) == [res |-> "Ok", err |-> NoError, value |-> v]

DecodeErr(e) == [res |-> "Err", err |-> e, value |-> Num(0)]

DecodePanic == [res |-> "Panic", err |-> NoError, value |-> Num(0)]

\* <T as Decode<Postgres>>::decode(Option<PgValue>): None decodes into an
\* Option<T> as None and is an unexpected null for a T; a text value is
\* decoded into a string only, which is the text itself
value_decode(target, raw) ==
    IF raw = None
    THEN IF target.optional THEN DecodeOk(Null)
         ELSE DecodeErr("UnexpectedNull")
    ELSE IF unwrap(raw).mode = "Text"
    THEN DecodeOk(Bytes(unwrap(raw).data))
    ELSE LET b == unwrap(raw).data
             type == target.type IN
         CASE type = "bool" ->
                IF Len(b) >= 1 THEN DecodeOk(Num(IF b[1] # 0 THEN 1 ELSE 0))
                ELSE DecodeErr("Decode")
           [] type = "i32" ->
                IF Len(b) >= 4
                THEN DecodeOk(Num(from_be_bytes(SubSeq(b, 1, 4))))
                ELSE DecodeErr("Decode")
           [] type = "i64" ->
                IF Len(b) >= 8
                THEN DecodeOk(Num(from_be_bytes(SubSeq(b, 1, 8))))
                ELSE DecodeErr("Decode")
           [] type = "f64" ->
                IF Len(b) >= 8 THEN DecodeOk(Bytes(SubSeq(b, 1, 8)))
                ELSE DecodeErr("Decode")
           [] type = "str" -> DecodeOk(Bytes(b))

Binary(bytes) == [mode |-> "Binary", data |-> bytes]

Text(s) == [mode |-> "Text", data |-> s]

\* buf[at - 4..at].copy_from_slice(bytes)
copy_from_slice(b, at, bytes) ==
    [i \in 1..Len(b) |-> IF i > at - 4 /\ i <= at THEN bytes[i - (at - 4)]
                         ELSE b[i]]

\* PgRecordEncoder::new (record.rs 26-35)
PgRecordEncoder_new(b) ==
    LET b1 == b \o << 0, 0, 0, 0 >> IN
    [buf |-> b1, beg |-> Len(b1), num |-> 0]

\* PgRecordEncoder::encode without the back-patch of the length
PgRecordEncoder_encode_unpatched(e, field) ==
    [e EXCEPT !.buf = e.buf \o be_bytes(oid(field.type), 4) \o << 0, 0, 0, 0 >>
                            \o value_encode(field),
              !.num = e.num + 1]

\* PgRecordEncoder::encode (record.rs 42-66)
PgRecordEncoder_encode(e, field) ==
    LET b1 == e.buf \o be_bytes(oid(field.type), 4)
        b2 == b1 \o << 0, 0, 0, 0 >>
        start_ == Len(b2)
        b3 == b2 \o value_encode(field)
        end == Len(b3)
        size == end - start_
    IN [e EXCEPT !.buf = copy_from_slice(b3, start_, be_bytes(size, 4)),
                 !.num = e.num + 1]

\* PgRecordEncoder::finish that patches the first four bytes of the buffer
PgRecordEncoder_finish_front(e) ==
    [e EXCEPT !.buf = copy_from_slice(e.buf, 4, be_bytes(e.num, 4))]

\* PgRecordEncoder::finish (record.rs 37-40)
PgRecordEncoder_finish(e) ==
    [e EXCEPT !.buf = copy_from_slice(e.buf, e.beg, be_bytes(e.num, 4))]

\* PgRecordDecoder::new (record.rs 96-109). A binary value loses its
\* field count, which is read and dropped; a text value loses its first
\* and its last character, and the slice panics on a text shorter than two.
PgRecordDecoder_new(value) ==
    IF value.mode = "Binary"
    THEN IF Len(value.data) < 4
         THEN [res |-> "Err", value |-> value]
         ELSE [res |-> "Ok",
               value |-> Binary(SubSeq(value.data, 5, Len(value.data)))]
    ELSE IF Len(value.data) < 2
         THEN [res |-> "Panic", value |-> value]
         ELSE [res |-> "Ok",
               value |-> Text(SubSeq(value.data, 2, Len(value.data) - 1))]

\* What a decode call gave the field decoder: nothing when it did not get
\* that far, else the Option<PgValue> it passed
NotCalled == None

Called(raw) == Some(raw)

\* The binary branch of decode without the step over the payload
decode_binary_unadvanced(value, target) ==
    LET b == value.data IN
    IF Len(b) < 4
    THEN [result |-> DecodeErr("Io"), value |-> value, handed |-> NotCalled]
    ELSE IF Len(b) < 8
    THEN [result |-> DecodeErr("Io"),
          value |-> Binary(SubSeq(b, 5, Len(b))), handed |-> NotCalled]
    ELSE LET len == from_be_bytes(SubSeq(b, 5, 8))
             rest == SubSeq(b, 9, Len(b))
         IN IF len < 0
            THEN [result |-> value_decode(target, None),
                  value |-> Binary(rest), handed |-> Called(None)]
            ELSE IF len > Len(rest)
            THEN [result |-> DecodePanic, value |-> Binary(rest),
                  handed |-> NotCalled]
            ELSE [result |-> value_decode(target,
                                Some(Binary(SubSeq(rest, 1, len)))),
                  value |-> Binary(rest),
                  handed |-> Called(Some(Binary(SubSeq(rest, 1, len))))]

\* The binary branch of decode (record.rs 116-133): the result of the
\* call, the value left in the decoder and what the field decoder was
\* given. A slice beyond the end of the buffer panics.
decode_binary(value, target) ==
    LET b == value.data IN
    IF Len(b) < 4
    THEN [result |-> DecodeErr("Io"), value |-> value, handed |-> NotCalled]
    ELSE IF Len(b) < 8
    THEN [result |-> DecodeErr("Io"),
          value |-> Binary(SubSeq(b, 5, Len(b))), handed |-> NotCalled]
    ELSE LET len == from_be_bytes(SubSeq(b, 5, 8))
             rest == SubSeq(b, 9, Len(b))
         IN IF len < 0
            THEN [result |-> value_decode(target, None),
                  value |-> Binary(rest), handed |-> Called(None)]
            ELSE IF len > Len(rest)
            THEN [result |-> DecodePanic, value |-> Binary(rest),
                  handed |-> NotCalled]
            ELSE [result |-> value_decode(target,
                                Some(Binary(SubSeq(rest, 1, len)))),
                  value |-> Binary(SubSeq(rest, len + 1, Len(rest))),
                  handed |-> Called(Some(Binary(SubSeq(rest, 1, len))))]

\* The scan of the text branch (record.rs 136-185) from the character at
\* index i (counted from 0) on; st holds the local variables, and index is
\* set when the loop is left: None, or Some(index)
ScanStart == [in_quotes |-> FALSE, is_quoted |-> FALSE, prev_ch |-> NUL,
              prev_index |-> 0, value |-> << >>, index |-> None]

RECURSIVE text_scan(_, _, _)
text_scan(s, i, st) ==
    IF i = Len(s)
    THEN [st EXCEPT !.index = IF st.prev_ch = NUL THEN None
                              ELSE Some(st.prev_index)]
    ELSE LET ch == s[i + 1]
             step(st1) == text_scan(s, i + 1,
                              [st1 EXCEPT !.prev_ch = ch, !.prev_index = i])
         IN IF ch = COMMA /\ st.prev_ch = NUL
            THEN [st EXCEPT !.index = None]
            ELSE IF ch = COMMA /\ ~st.in_quotes
            THEN [st EXCEPT !.index = Some(i)]
            ELSE IF ch = QUOTE /\ st.in_quotes
            THEN step([st EXCEPT !.in_quotes = FALSE])
            ELSE IF ch = QUOTE /\ st.prev_ch = QUOTE
            THEN step([st EXCEPT !.in_quotes = FALSE,
                                 !.value = Append(@, QUOTE)])
            ELSE IF ch = QUOTE
            THEN step([st EXCEPT !.in_quotes = TRUE, !.is_quoted = TRUE])
            ELSE step([st EXCEPT !.value = Append(@, ch)])

\* The text branch of decode from the end of the scan on (record.rs
\* 187-200), st being what the scan ended with. The slices s[1..] of an
\* empty slice and s[index + 1..] beyond the end panic.
decode_text_sliced(s, st, target) ==
    IF st.index = None
    THEN IF value_decode(target, None).res # "Ok"
         THEN [result |-> value_decode(target, None), value |-> Text(s),
               handed |-> Called(None)]
         ELSE IF 1 > Len(s)
         THEN [result |-> DecodePanic, value |-> Text(s),
               handed |-> Called(None)]
         ELSE [result |-> value_decode(target, None),
               value |-> Text(SubSeq(s, 2, Len(s))),
               handed |-> Called(None)]
    ELSE IF st.is_quoted /\ unwrap(st.index) = 0
    THEN [result |-> DecodePanic, value |-> Text(s), handed |-> NotCalled]
    ELSE LET index == unwrap(st.index)
             field == IF st.is_quoted THEN SubSeq(s, 2, index)
                      ELSE SubSeq(s, 1, index)
             r == value_decode(target, Some(Text(field)))
         IN [result |-> r,
             value |-> IF r.res = "Ok" THEN Text(SubSeq(s, index + 2, Len(s)))
                       ELSE Text(s),
             handed |-> Called(Some(Text(field)))]

\* The text branch of decode (record.rs 135-201)
decode_text(value, target) ==
    decode_text_sliced(value.data, text_scan(value.data, 0, ScanStart),
                       target)

\* PgRecordDecoder::decode (record.rs 111-203)
PgRecordDecoder_decode(value, target) ==
    IF value.mode = "Binary" THEN decode_binary(value, target)
    ELSE decode_text(value, target)

\* The records given to the codec
FieldValues ==
    [type : {"bool"}, null : {FALSE}, num : {0, 1}, bytes : {<< >>}]
    \cup [type : {"i32"}, null : {FALSE}, num : {0 - 2, 65537},
          bytes : {<< >>}]
    \cup [type : {"i64"}, null : {FALSE}, num : {0 - 1}, bytes : {<< >>}]
    \cup [type : {"f64"}, null : {FALSE}, num : {0},
          bytes : {<< 63, 240, 0, 0, 0, 0, 0, 0 >>}]
    \cup [type : {"str"}, null : {FALSE}, num : {0},
          bytes : {<< >>, << 34, 44 >>}]

Inputs == UNION { [1..n -> FieldValues] : n \in 0..MaxFields }

\* What the buffer holds before the record is encoded
Prefixes == { << >>, << 7 >> }

EncoderNew ==
    /\ phase = "new"
    /\ LET e == PgRecordEncoder_new(buf) IN
       /\ buf' = e.buf
       /\ encoder' = Some([beg |-> e.beg, num |-> e.num])
    /\ phase' = "encode"
    /\ UNCHANGED << input, start, decoder, decoded, received, targets,
                    handed >>
    /\ UNCHANGED << cursorVars, valueVars >>

TheEncoder == [buf |-> buf, beg |-> unwrap(encoder).beg,
               num |-> unwrap(encoder).num]

EncoderEncode ==
    /\ phase = "encode"
    /\ unwrap(encoder).num < Len(input)
    /\ LET e == PgRecordEncoder_encode(TheEncoder,
                                       input[unwrap(encoder).num + 1]) IN
       /\ buf' = e.buf
       /\ encoder' = Some([beg |-> e.beg, num |-> e.num])
    /\ UNCHANGED << input, start, decoder, decoded, phase, received,
                    targets, handed >>
    /\ UNCHANGED << cursorVars, valueVars >>

EncoderFinish ==
    /\ phase = "encode"
    /\ unwrap(encoder).num = Len(input)
    /\ buf' = PgRecordEncoder_finish(TheEncoder).buf
    /\ phase' = "encoded"
    /\ UNCHANGED << input, start, encoder, decoder, decoded, received,
                    targets, handed >>
    /\ UNCHANGED << cursorVars, valueVars >>

\* The bytes the encoder appended are received as a binary value
DecoderNew ==
    /\ phase = "encoded"
    /\ LET d == PgRecordDecoder_new(Binary(SubSeq(buf, start + 1, Len(buf)))) IN
       /\ decoder' = Some(d.value)
       /\ phase' = CASE d.res = "Ok" -> "decode"
                     [] d.res = "Err" -> "failed"
                     [] d.res = "Panic" -> "panicked"
    /\ UNCHANGED << input, buf, start, encoder, decoded, received, targets,
                    handed >>
    /\ UNCHANGED << cursorVars, valueVars >>

\* One decode call per target type; the first failure ends the decoding
DecoderDecode ==
    /\ phase = "decode"
    /\ Len(decoded) < Len(targets)
    /\ LET d == PgRecordDecoder_decode(unwrap(decoder),
                                       targets[Len(decoded) + 1]) IN
       /\ decoder' = Some(d.value)
       /\ decoded' = Append(decoded, d.result)
       /\ handed' = Append(handed, d.handed)
       /\ phase' = CASE d.result.res = "Ok" -> "decode"
                     [] d.result.res = "Err" -> "failed"
                     [] d.result.res = "Panic" -> "panicked"
    /\ UNCHANGED << input, buf, start, encoder, received, targets >>
    /\ UNCHANGED << cursorVars, valueVars >>

\* ------------------------------------------------------------------------
\* Records as a Postgres server sends them
\* ------------------------------------------------------------------------
NullOf(type) == [type |-> type, null |-> TRUE, num |-> 0, bytes |-> << >>]

StrOf(b) == [type |-> "str", null |-> FALSE, num |-> 0, bytes |-> b]

\* The fields of the binary records: true, -2, the string "a," and NULLs
BinaryFields ==
    { [type |-> "bool", null |-> FALSE, num |-> 1, bytes |-> << >>],
      [type |-> "i32", null |-> FALSE, num |-> 0 - 2, bytes |-> << >>],
      StrOf(<< 97, COMMA >>), NullOf("i32"), NullOf("str") }

\* The fields of the text records: the strings "", "a", "ab", "a,b" and
\* "a"b" (with one quote), and NULL
TextFields ==
    { StrOf(<< >>), StrOf(<< 97 >>), StrOf(<< 97, 98 >>),
      StrOf(<< 97, COMMA, 98 >>), StrOf(<< 97, QUOTE, 98 >>), NullOf("str") }

\* The binary form: per field the type identifier and the length with the
\* payload, or the length -1 and no payload for NULL
RECURSIVE send_fields(_)
send_fields(fields) ==
    IF fields = << >> THEN << >>
    ELSE LET f == Head(fields) IN
         be_bytes(oid(f.type), 4)
         \o (IF f.null THEN to_be_bytes(0 - 1, 4)
             ELSE be_bytes(Len(value_encode(f)), 4) \o value_encode(f))
         \o send_fields(Tail(fields))

record_send(count, fields) == be_bytes(count, 4) \o send_fields(fields)

\* The text form: the fields between parentheses, separated by commas; NULL
\* is nothing at all; a string that is empty or holds a comma or a quote is
\* put between quotes, with every quote of it doubled
RECURSIVE doubled(_)
doubled(b) ==
    IF b = << >> THEN << >>
    ELSE (IF Head(b) = QUOTE THEN << QUOTE, QUOTE >> ELSE << Head(b) >>)
         \o doubled(Tail(b))

NeedsQuotes(b) == b = << >> \/ \E k \in 1..Len(b) : b[k] \in {COMMA, QUOTE}

out_field(f) ==
    IF f.null THEN << >>
    ELSE IF NeedsQuotes(f.bytes)
    THEN << QUOTE >> \o doubled(f.bytes) \o << QUOTE >>
    ELSE f.bytes

RECURSIVE out_fields(_)
out_fields(fields) ==
    IF fields = << >> THEN << >>
    ELSE IF Len(fields) = 1 THEN out_field(Head(fields))
    ELSE out_field(Head(fields)) \o << COMMA >> \o out_fields(Tail(fields))

record_out(fields) == << LPAREN >> \o out_fields(fields) \o << RPAREN >>

SeqsUpTo(S, n) == UNION { [1..k -> S] : k \in 0..n }

Prefix(b, n) == SubSeq(b, 1, n)

\* What may arrive as a binary record of the fields: the record, the
\* record cut short anywhere, and the record with a field count one too
\* large
BinaryReceived(fields) ==
    { Binary(Prefix(record_send(Len(fields), fields), n)) :
        n \in 0..Len(record_send(Len(fields), fields)) }
    \cup { Binary(record_send(Len(fields) + 1, fields)) }

\* What may arrive as a text record of the fields: the record, the record
\* cut short anywhere, and the latter closed by a parenthesis
TextReceived(fields) ==
    { Text(Prefix(record_out(fields), n)) :
        n \in 0..Len(record_out(fields)) }
    \cup { Text(Prefix(record_out(fields), n) \o << RPAREN >>) :
             n \in 1..(Len(record_out(fields)) - 1) }

\* The decode calls made on a record: one per field, into the field's type
\* or into the Option of it
TargetsOf(fields, optional) ==
    [k \in 1..Len(fields) |->
        [type |-> fields[k].type, optional |-> optional]]

\* PgRecordDecoder::new on the received value (record.rs 96-109)
RecordNew ==
    /\ phase = "received"
    /\ LET d == PgRecordDecoder_new(received) IN
       /\ decoder' = Some(d.value)
       /\ phase' = CASE d.res = "Ok" -> "decode"
                     [] d.res = "Err" -> "failed"
                     [] d.res = "Panic" -> "panicked"
    /\ UNCHANGED << input, buf, start, encoder, decoded, received, targets,
                    handed >>
    /\ UNCHANGED << cursorVars, valueVars >>

\* ------------------------------------------------------------------------
\* MySQL rows and values (mysql/row.rs), the MySQL cursor (mysql/cursor.rs)
\* and the SQLite Option<T> decoder (sqlite/types/mod.rs)
\* ------------------------------------------------------------------------
\* crate::Result: Ok(v) or Err(e)
ROk(v) == [res |-> "Ok", err |-> NoError, value |-> Some(v)]

RErr(e) == [res |-> "Err", err |-> e, value |-> None]

\* A call that did not return: it panicked
RPanic == [res |-> "Panic", err |-> NoError, value |-> None]

MySqlValue_Binary(b) == [mode |-> "Binary", data |-> b]

MySqlValue_Text(b) == [mode |-> "Text", data |-> b]

\* A conversion that takes the absent value for an empty binary value
MySqlValue_try_from_default(value) ==
    IF value # None THEN ROk(unwrap(value))
    ELSE ROk(MySqlValue_Binary(<< >>))

\* TryFrom<Option<MySqlValue>> for MySqlValue (row.rs 18-28)
MySqlValue_try_from(value) ==
    IF value # None THEN ROk(unwrap(value))
    ELSE RErr("UnexpectedNull")

\* std::str::from_utf8 on bytes below 224: a byte below 128 is a character,
\* a byte of 194..223 is one with a continuation byte (128..191) after it
RECURSIVE from_utf8(_)
from_utf8(b) ==
    IF b = << >> THEN TRUE
    ELSE IF b[1] < 128 THEN from_utf8(Tail(b))
    ELSE IF b[1] >= 194 /\ b[1] <= 223 /\ Len(b) >= 2
            /\ b[2] >= 128 /\ b[2] <= 191
    THEN from_utf8(Tail(Tail(b)))
    ELSE FALSE

\* A column reference: a position, or a name
ByIndex(i) == [by |-> "index", index |-> i, name |-> ""]

ByName(name) == [by |-> "name", index |-> 0, name |-> name]

\* ColumnIndex::resolve: a position within the row, or the position the
\* column map has for the name
resolve(row, reference) ==
    IF reference.by = "index"
    THEN IF reference.index >= Len(row.row)
         THEN RErr("ColumnIndexOutOfBounds")
         ELSE ROk(reference.index)
    ELSE IF reference.name \notin DOMAIN row.columns
         THEN RErr("ColumnNotFound")
         ELSE ROk(row.columns[reference.name])

\* get_raw that takes every row for a binary row
MySqlRow_get_raw_binary(row, reference) ==
    IF resolve(row, reference).res = "Err" THEN resolve(row, reference)
    ELSE LET buffer == row.row[unwrap(resolve(row, reference).value) + 1]
         IN IF buffer = None THEN ROk(None)
            ELSE ROk(Some(MySqlValue_Binary(unwrap(buffer))))

\* MySqlRow::get_raw (row.rs 43-57); the result is an Option<MySqlValue>
MySqlRow_get_raw(row, reference) ==
    IF resolve(row, reference).res = "Err" THEN resolve(row, reference)
    ELSE LET buffer == row.row[unwrap(resolve(row, reference).value) + 1]
         IN IF buffer = None THEN ROk(None)
            ELSE IF row.binary
            THEN ROk(Some(MySqlValue_Binary(unwrap(buffer))))
            ELSE IF from_utf8(unwrap(buffer))
            THEN ROk(Some(MySqlValue_Text(unwrap(buffer))))
            ELSE RErr("Decode")

\* The rows: up to two columns named id and n, each NULL or some bytes,
\* "a", "e" with an acute accent (two bytes), and a byte that is no UTF-8
ColumnBytes == { << 97 >>, << 195, 169 >>, << 255 >> }

ColumnNames == << "id", "n" >>

MySqlRows ==
    { [row |-> r,
       columns |-> [name \in { ColumnNames[k] : k \in 1..Len(r) } |->
                       (CHOOSE k \in 1..Len(r) : ColumnNames[k] = name) - 1],
       binary |-> b] :
      r \in SeqsUpTo({None} \cup { Some(c) : c \in ColumnBytes }, 2),
      b \in BOOLEAN }

References == { ByIndex(i) : i \in 0..2 } \cup
              { ByName(name) : name \in {"id", "n", "zz"} }

\* A SqliteValue: NULL, an integer or a text; T::decode of it (the integer
\* decoder reads the integer, the text decoder wants UTF-8)
SqliteValues ==
    { [null |-> TRUE, num |-> 0, bytes |-> << >>],
      [null |-> FALSE, num |-> 7, bytes |-> << >>] }
    \cup { [null |-> FALSE, num |-> 0, bytes |-> c] : c \in ColumnBytes }

is_null(value) == value.null

Sqlite_decode(type, value) ==
    IF type = "i64" THEN ROk(Num(value.num))
    ELSE IF from_utf8(value.bytes) THEN ROk(Bytes(value.bytes))
    ELSE RErr("Decode")

\* Result::map(Some)
map_Some(r) == IF r.res = "Ok" THEN ROk(Some(unwrap(r.value))) ELSE r

\* Decode<Sqlite> for Option<T> (sqlite/types/mod.rs 69-80)
Sqlite_Option_decode(type, value) ==
    IF is_null(value) THEN ROk(None)
    ELSE map_Some(Sqlite_decode(type, value))

CallOf(call, arg, result) == [call |-> call, arg |-> arg, result |-> result]

\* row.get_raw(reference)
GetRaw ==
    /\ phase = "mysql_row"
    /\ outcome = << >>
    /\ \E reference \in References :
          outcome' = << CallOf("get_raw", reference,
                               MySqlRow_get_raw(unwrap(mysql_row),
                                                reference)) >>
    /\ UNCHANGED << mysql_row, mysql_cursor, sqlite_value >>
    /\ UNCHANGED << cursorVars, codecVars >>

\* The raw value is converted for a decoder: value.try_into()
TryFrom ==
    /\ phase = "mysql_row"
    /\ Len(outcome) = 1
    /\ outcome[1].result.res = "Ok"
    /\ outcome' = Append(outcome,
                     CallOf("try_from", unwrap(outcome[1].result.value),
                            MySqlValue_try_from(
                                unwrap(outcome[1].result.value))))
    /\ UNCHANGED << mysql_row, mysql_cursor, sqlite_value >>
    /\ UNCHANGED << cursorVars, codecVars >>

\* <Option<T> as Decode<Sqlite>>::decode(value)
SqliteDecode ==
    /\ phase = "sqlite"
    /\ outcome = << >>
    /\ \E type \in {"i64", "str"} :
          outcome' = << CallOf("decode", type,
                               Sqlite_Option_decode(type,
                                                    unwrap(sqlite_value))) >>
    /\ UNCHANGED << mysql_row, mysql_cursor, sqlite_value >>
    /\ UNCHANGED << cursorVars, codecVars >>

\* MySqlCursor::from_pool, from_connection (mysql/cursor.rs 23-49)
MySqlCursor_new(source, query) ==
    /\ phase = "mysql_cursor"
    /\ mysql_cursor = None
    /\ mysql_cursor' = Some([source |-> source, columns |-> EmptyMap,
                             binary |-> TRUE, query |-> Some(query)])
    /\ UNCHANGED << mysql_row, sqlite_value, outcome >>
    /\ UNCHANGED << cursorVars, codecVars >>

MySql_from_pool == \E q \in PendingQueries : MySqlCursor_new("Pool", q)

MySql_from_connection ==
    \E q \in PendingQueries : MySqlCursor_new("Connection", q)

\* What next does once the connection is resolved (mysql/cursor.rs 61):
\* todo!() panics, and the cursor is as it was
MySql_next(cursor) == [cursor |-> cursor, result |-> RPanic]

MySqlCanCall == mysql_cursor # None /\ Len(outcome) < MaxCalls

\* next() whose resolve_by_ref fails (mysql/cursor.rs 59)
MySqlNextResolveErr ==
    /\ MySqlCanCall
    /\ unwrap(mysql_cursor).source = "Pool"
    /\ outcome' = Append(outcome, CallOf("next", None, RErr("Connectivity")))
    /\ UNCHANGED << mysql_row, mysql_cursor, sqlite_value >>
    /\ UNCHANGED << cursorVars, codecVars >>

\* next() on a resolved connection (mysql/cursor.rs 56-62)
MySqlNext ==
    /\ MySqlCanCall
    /\ LET n == MySql_next(unwrap(mysql_cursor)) IN
       /\ mysql_cursor' = Some(n.cursor)
       /\ outcome' = Append(outcome, CallOf("next", None, n.result))
    /\ UNCHANGED << mysql_row, sqlite_value >>
    /\ UNCHANGED << cursorVars, codecVars >>

CursorInit ==
    /\ stream = << >>
    /\ cache_statement_columns = EmptyMap
    /\ cache_statement_formats = EmptyMap
    /\ arcs = << >>
    /\ pg_cursor = None
    /\ hist = NoHist
    /\ created = 0
    /\ past = NoPast

ValueInit ==
    /\ mysql_row = None
    /\ mysql_cursor = None
    /\ sqlite_value = None
    /\ outcome = << >>

Init ==
    /\ CursorInit
    /\ input = << >>
    /\ buf = << >>
    /\ start = 0
    /\ encoder = None
    /\ decoder = None
    /\ decoded = << >>
    /\ phase = "off"
    /\ received = None
    /\ targets = << >>
    /\ handed = << >>
    /\ ValueInit

Next == from_pool \/ from_connection \/ NextResolveErr \/ NextExecute
           \/ NextRead \/ Drop

Spec == Init /\ [][Next]_vars

\* The codec run on every record and every buffer
CodecInit ==
    /\ CursorInit
    /\ input \in Inputs
    /\ buf \in Prefixes
    /\ start = Len(buf)
    /\ encoder = None
    /\ decoder = None
    /\ decoded = << >>
    /\ phase = "new"
    /\ received = None
    /\ targets = TargetsOf(input, FALSE)
    /\ handed = << >>
    /\ ValueInit

CodecNext == EncoderNew \/ EncoderEncode \/ EncoderFinish \/ DecoderNew
                \/ DecoderDecode

CodecSpec == CodecInit /\ [][CodecNext]_vars

\* The decoding of every record received, in binary and in text form
RecordInit ==
    /\ CursorInit
    /\ ValueInit
    /\ buf = << >>
    /\ start = 0
    /\ encoder = None
    /\ decoder = None
    /\ decoded = << >>
    /\ handed = << >>
    /\ phase = "received"
    /\ \/ /\ input \in SeqsUpTo(BinaryFields, MaxFields)
          /\ received \in BinaryReceived(input)
       \/ /\ input \in SeqsUpTo(TextFields, MaxFields)
          /\ received \in TextReceived(input)
    /\ \E optional \in BOOLEAN : targets = TargetsOf(input, optional)

NoRecord ==
    /\ input = << >>
    /\ buf = << >>
    /\ start = 0
    /\ encoder = None
    /\ decoder = None
    /\ decoded = << >>
    /\ received = None
    /\ targets = << >>
    /\ handed = << >>

\* The calls on every MySQL row
MySqlRowInit ==
    /\ CursorInit
    /\ NoRecord
    /\ phase = "mysql_row"
    /\ mysql_row \in { Some(r) : r \in MySqlRows }
    /\ mysql_cursor = None
    /\ sqlite_value = None
    /\ outcome = << >>

\* The MySQL cursors and their next() calls
MySqlCursorInit ==
    /\ CursorInit
    /\ NoRecord
    /\ ValueInit
    /\ phase = "mysql_cursor"

\* The Option<T> decoder on every SQLite value
SqliteInit ==
    /\ CursorInit
    /\ NoRecord
    /\ phase = "sqlite"
    /\ mysql_row = None
    /\ mysql_cursor = None
    /\ sqlite_value \in { Some(v) : v \in SqliteValues }
    /\ outcome = << >>

DecodeInit == RecordInit \/ MySqlRowInit \/ MySqlCursorInit \/ SqliteInit

DecodeNext == RecordNew \/ DecoderDecode \/ GetRaw \/ TryFrom \/ SqliteDecode
                 \/ MySql_from_pool \/ MySql_from_connection
                 \/ MySqlNextResolveErr \/ MySqlNext

DecodeSpec == DecodeInit /\ [][DecodeNext]_vars

\* ========================================================================
\* Properties
\* ========================================================================
Min(a, b) == IF a < b THEN a ELSE b

Outcomes == IF live THEN hist.outcomes ELSE << >>

Cursor == unwrap(pg_cursor)

\* The outcomes of the calls that reached the connection
Reads == SelectSeq(Outcomes, LAMBDA o : o.err # "Connectivity")

\* The query ran on a connection with nothing unread, and the response is
\* one a Postgres backend produces for it: a description of the result
\* unless the statement was found in the cache; no description either for
\* a simple statement without a result (INSERT, CREATE TABLE), which is
\* answered by command-complete alone.
Conforming ==
    /\ live /\ hist.sent /\ hist.clean
    /\ hist.hit => ~hist.shape.described
    /\ (~hist.hit /\ ~hist.shape.described) =>
           (hist.statement = None /\ hist.shape.rows = 0)

\* A conforming response with data rows and acknowledgements only before
\* its command-complete message
BackendResponse == Conforming /\ hist.shape.plain

\* What the cursor has to return for a response with n data rows
RowsThenNone(n) ==
    [k \in 1..(n + 1) |->
        IF k <= n
        THEN Ok_Some(PgRow(Cursor.columns, Cursor.formats,
                           [owner |-> created, seq |-> k]))
        ELSE Ok_None]

\* C1: for a response of N data rows followed by command-complete, with
\* acknowledgements interleaved, the next() calls return the N rows in the
\* order transmitted and then end-of-stream, on the prepared and on the
\* unprepared path.
C1_RowsInOrderThenNone ==
    BackendResponse =>
        \A k \in 1..Min(Len(Reads), hist.shape.rows + 1) :
            Reads[k] = RowsThenNone(hist.shape.rows)[k]

\* C2: over any sequence of next() calls on one cursor, failing calls
\* included, conn.run is invoked at most once.
C2_RunAtMostOnce == live => hist.runs <= 1

\* C2 witness: a call ran the query and failed, and a later call returned
C2_Witness ==
    /\ live /\ hist.runs = 1
    /\ Len(Reads) >= 2
    /\ Reads[1].kind = "Err"

\* C3: two executions of the same statement identifier on one connection
\* perform one describe sequence: the first describes and stores, the
\* second finds the statement in the cache and describes nothing; both
\* cursors hold the same column map and the same format list.
C3_OneDescribePerStatement ==
    /\ \A id \in StatementIds :
          /\ Cardinality(past[id].published) <= 1
          /\ past[id].published # {} => past[id].described = 1
    /\ (live /\ hist.published /\ hist.statement # None) =>
          LET before == past[unwrap(hist.statement)] IN
          /\ before.described + hist.describes = 1
          /\ before.published # {} =>
                /\ hist.hit
                /\ hist.describes = 0
                /\ before.published = {<< Cursor.columns, Cursor.formats >>}

\* C3 witness: a second cursor executed a statement that a dropped cursor
\* had executed, and yielded a row
C3_Witness ==
    /\ live /\ hist.published /\ hist.statement # None
    /\ past[unwrap(hist.statement)].published # {}
    /\ \E k \in 1..Len(Outcomes) : Outcomes[k].kind = "Row"

\* The terminal outcomes of a cursor: end-of-stream, and a failure of a call
\* that reached the connection
Terminal(o) == o.kind = "None" \/ (o.kind = "Err" /\ o.err # "Connectivity")

\* C4: once next() returned end-of-stream or a failure, every later call
\* returns that same outcome.
C4_TerminalIsIdempotent ==
    \A j, k \in 1..Len(Outcomes) :
        (j < k /\ Terminal(Outcomes[j])) => Outcomes[k] = Outcomes[j]

\* C5: after a next() call failed on an unexpected message, no later call
\* on the cursor returns a row.
C5_NoRowAfterProtocolError ==
    Conforming =>
        \A j, k \in 1..Len(Outcomes) :
            (j < k /\ Outcomes[j].err = "Protocol") =>
                Outcomes[k].kind # "Row"

\* C6: a cursor on a connection that an abandoned cursor used yields only
\* rows of its own query, as long as no call reported a failure.
C6_NoRowOfAbandonedQuery ==
    \A k \in 1..Len(Outcomes) :
        ( /\ Outcomes[k].kind = "Row"
          /\ \A j \in 1..(k - 1) : Outcomes[j].kind # "Err" )
        => unwrap(Outcomes[k].row).data.owner = created

\* C7: once published, the cursor's column map and format list never
\* change, and every row yielded carries those very references.
C7_Step ==
    /\ (live /\ hist.published /\ pg_cursor' # None) =>
          /\ unwrap(pg_cursor').columns = Cursor.columns
          /\ unwrap(pg_cursor').formats = Cursor.formats
          /\ arcs'[Cursor.columns] = arcs[Cursor.columns]
          /\ arcs'[Cursor.formats] = arcs[Cursor.formats]
    /\ ( /\ live /\ pg_cursor' # None
         /\ Len(hist'.outcomes) > Len(hist.outcomes)
         /\ hist'.published
         /\ hist'.outcomes[Len(hist'.outcomes)].kind = "Row" ) =>
          LET row == unwrap(hist'.outcomes[Len(hist'.outcomes)].row) IN
          /\ row.columns = unwrap(pg_cursor').columns
          /\ row.formats = unwrap(pg_cursor').formats

C7_PublishedMetadataImmutableAndShared == [][C7_Step]_vars

\* C7 witness: a published cursor with a non-empty column map yielded two
\* rows
C7_Witness ==
    /\ live /\ hist.published
    /\ arcs[Cursor.columns] # EmptyMap
    /\ Len(Reads) >= 2
    /\ Reads[1].kind = "Row" /\ Reads[2].kind = "Row"

\* C8: a statement cache entry, once stored, is never replaced or changed
\* by a later execution, whatever its statement identifier.
C8_Step ==
    \A id \in DOMAIN cache_statement_columns :
        /\ id \in DOMAIN cache_statement_columns'
        /\ id \in DOMAIN cache_statement_formats'
        /\ cache_statement_columns'[id] = cache_statement_columns[id]
        /\ cache_statement_formats'[id] = cache_statement_formats[id]
        /\ arcs'[cache_statement_columns[id]] = arcs[cache_statement_columns[id]]
        /\ arcs'[cache_statement_formats[id]] = arcs[cache_statement_formats[id]]

C8_CacheEntryWrittenOnce == [][C8_Step]_vars

\* C8 witness: with a statement cached, a later cursor executed that
\* statement again and described nothing although the response described it
C8_Witness ==
    /\ live /\ hist.sent /\ hist.hit /\ hist.shape.described
    /\ unwrap(hist.statement) \in DOMAIN cache_statement_columns

\* C9: an unprepared execution always runs a describe sequence, takes its
\* metadata from it and not from the cache, and leaves the cache unchanged.
C9_Step ==
    ( /\ live /\ pg_cursor' # None
      /\ ~hist.sent /\ hist'.sent
      /\ hist'.statement = None ) =>
        /\ hist'.describes = 1
        /\ cache_statement_columns' = cache_statement_columns
        /\ cache_statement_formats' = cache_statement_formats
        /\ hist'.published =>
              /\ unwrap(pg_cursor').columns > Len(arcs)
              /\ unwrap(pg_cursor').formats > Len(arcs)

C9_UnpreparedNeverCached == [][C9_Step]_vars

\* C9 witness: an unprepared query was executed and described on a
\* connection whose cache holds a statement
C9_Witness ==
    /\ live /\ hist.sent /\ hist.statement = None /\ hist.published
    /\ cache_statement_columns # EmptyMap

\* C10: encoding a record with PgRecordEncoder and decoding the bytes with
\* PgRecordDecoder in binary mode gives back the field values, in order.
C10_BinaryRoundTrip ==
    /\ phase # "failed"
    /\ \A k \in 1..Len(decoded) : decoded[k] = DecodeOk(ValueOf(input[k]))

\* C10 witness: a record of three fields of different types, a string with
\* a quote and a comma among them, was encoded after other bytes and decoded
C10_Witness ==
    /\ Len(input) = 3 /\ Len(decoded) = 3
    /\ start > 0
    /\ input[1].type = "i32" /\ input[2].type = "str" /\ input[3].type = "bool"
    /\ input[2].bytes # << >>

\* The wire layout of a composite value: per field the type identifier,
\* the length of the payload and the payload
RECURSIVE FieldsLayout(_)
FieldsLayout(fields) ==
    IF fields = << >> THEN << >>
    ELSE be_bytes(oid(Head(fields).type), 4)
         \o be_bytes(Len(value_encode(Head(fields))), 4)
         \o value_encode(Head(fields))
         \o FieldsLayout(Tail(fields))

\* C11: after new, k encode calls and finish, the buffer is what it was
\* before new followed by the big-endian field count k and, per field in
\* call order, the type identifier, the exact payload length and the
\* payload; also when the buffer was not empty before new.
C11_EncoderLayout ==
    phase \in {"encoded", "decode", "failed"} =>
        /\ SubSeq(buf, 1, start) \in Prefixes
        /\ SubSeq(buf, start + 1, Len(buf))
              = be_bytes(Len(input), 4) \o FieldsLayout(input)

\* C11 witness: three fields, among them a string of two bytes and an i64,
\* were encoded into a buffer that was not empty, and finish was called
C11_Witness ==
    /\ phase = "encoded"
    /\ start > 0
    /\ Len(input) = 3
    /\ input[1].type = "str" /\ Len(input[1].bytes) = 2
    /\ input[3].type = "i64"

\* The record arrived whole, in text or in binary form
WholeText == received # None /\ received = Text(record_out(input))

WholeBinary ==
    received # None /\ received = Binary(record_send(Len(input), input))

AllOptional == \A k \in 1..Len(targets) : targets[k].optional

\* Every decode call so far succeeded and gave the value of its field
DecodedAsSent ==
    /\ phase \notin {"failed", "panicked"}
    /\ \A k \in 1..Len(decoded) : decoded[k] = DecodeOk(ValueOf(input[k]))

\* The shapes of a text field C12 names: NULL, a quoted string with a
\* comma, a quoted string with an escaped quote
QuotedShapes ==
    { NullOf("str"), StrOf(<< 97, COMMA, 98 >>), StrOf(<< 97, QUOTE, 98 >>) }

\* C12: the text records made of the named shapes, the empty record among
\* them, decode without failure: a NULL field as NULL at any position, a
\* quoted field with a comma to its content with the comma and without
\* the enclosing quotes, a quoted field with an escaped quote to its
\* content with one quote.
C12_TextShapesDecoded ==
    ( /\ WholeText /\ AllOptional
      /\ \A k \in 1..Len(input) : input[k] \in QuotedShapes )
    => DecodedAsSent

\* A binary record cut short, a text with a quote that is never closed, a
\* text shorter than its two parentheses
CutShort ==
    /\ received # None /\ received.mode = "Binary"
    /\ Len(received.data) < Len(record_send(Len(input), input))

Unterminated ==
    /\ received # None /\ received.mode = "Text"
    /\ Cardinality({ k \in 1..Len(received.data) :
                        received.data[k] = QUOTE }) % 2 = 1

TooShort ==
    received # None /\ received.mode = "Text" /\ Len(received.data) < 2

\* All the decode calls were made and none failed
AllDecoded == phase = "decode" /\ Len(decoded) = Len(targets)

\* C13: malformed composite input makes new() or decode() return an error:
\* nothing panics, and the decoding does not come to its end with values.
C13_MalformedIsDecodeFailure ==
    (CutShort \/ Unterminated \/ TooShort) =>
        /\ phase # "panicked"
        /\ ~AllDecoded

\* What the field decoder of field k is to be given
HandedOf(field) ==
    IF field.null THEN Called(None)
    ELSE Called(Some(Binary(value_encode(field))))

\* C19: each decode call on a binary record hands the field decoder
\* exactly the payload of its field, None for a negative length, and
\* leaves the decoder at the type identifier of the next field.
C19_ConsumesAdvertisedBytes ==
    (WholeBinary /\ phase \in {"decode", "failed"}) =>
        /\ Len(handed) = Len(decoded)
        /\ \A k \in 1..Len(handed) : handed[k] = HandedOf(input[k])
        /\ unwrap(decoder).data
              = send_fields(SubSeq(input, Len(decoded) + 1, Len(input)))

\* C19 witness: a record of a string, a NULL and an integer was decoded to
\* its end
C19_Witness ==
    /\ WholeBinary /\ AllDecoded
    /\ Len(input) = 3
    /\ input[1] = StrOf(<< 97, COMMA >>)
    /\ input[2].null
    /\ input[3].type = "i32" /\ ~input[3].null

\* C20: a binary record whose field count differs from the number of
\* fields decoded from it is rejected with a decode failure.
C20_FieldCountValidated ==
    ( /\ received # None
      /\ received = Binary(record_send(Len(input) + 1, input)) )
    => ~AllDecoded

\* The calls made so far on the MySQL row, the MySQL cursor or the SQLite
\* value
CallsOf(call) == { k \in 1..Len(outcome) : outcome[k].call = call }

\* C14: a NULL raw value decodes into an optional target as the empty
\* result and into a non-optional target fails with an unexpected-null
\* error: the conversion of an Option<MySqlValue> gives that error for
\* None and v for Some(v); the SQLite Option<T> decoder gives None for a
\* null value and Some of what T decodes otherwise; a record field of
\* negative length reaches its decoder as None.
C14_NullDecoding ==
    /\ \A k \in CallsOf("try_from") :
          outcome[k].result = IF outcome[k].arg = None
                              THEN RErr("UnexpectedNull")
                              ELSE ROk(unwrap(outcome[k].arg))
    /\ \A k \in CallsOf("decode") :
          LET r == outcome[k].result IN
          IF unwrap(sqlite_value).null THEN r = ROk(None)
          ELSE /\ r # ROk(None)
               /\ r.res = "Ok" =>
                     unwrap(unwrap(r.value))
                       = IF outcome[k].arg = "i64"
                         THEN Num(unwrap(sqlite_value).num)
                         ELSE Bytes(unwrap(sqlite_value).bytes)
    /\ WholeBinary =>
          \A k \in 1..Len(handed) : input[k].null =>
              /\ handed[k] = Called(None)
              /\ decoded[k] = IF targets[k].optional THEN DecodeOk(Null)
                              ELSE DecodeErr("UnexpectedNull")

\* C14 witness: the NULL column of a row was read and converted
C14_Witness ==
    /\ CallsOf("try_from") # {}
    /\ outcome[2].arg = None
    /\ outcome[1].result = ROk(None)

\* The column a reference names in the row, if it names one
ColumnOf(row, reference) ==
    IF reference.by = "index"
    THEN IF reference.index < Len(row.row) THEN Some(reference.index)
         ELSE None
    ELSE IF reference.name = "id" /\ Len(row.row) >= 1 THEN Some(0)
    ELSE IF reference.name = "n" /\ Len(row.row) >= 2 THEN Some(1)
    ELSE None

\* C15: get_raw returns the resolution error when the reference does not
\* resolve, Ok(None) for a NULL column, and else a present value, Binary
\* of the bytes in a binary row and Text of them in a text row, or a decode
\* error and no value when the text bytes are not UTF-8.
C15_GetRaw ==
    \A k \in CallsOf("get_raw") :
        LET row == unwrap(mysql_row)
            col == ColumnOf(row, outcome[k].arg)
            r == outcome[k].result
        IN IF col = None
           THEN r = RErr(IF outcome[k].arg.by = "index"
                         THEN "ColumnIndexOutOfBounds" ELSE "ColumnNotFound")
           ELSE IF row.row[unwrap(col) + 1] = None
           THEN r = ROk(None)
           ELSE IF row.binary
           THEN r = ROk(Some(MySqlValue_Binary(
                                 unwrap(row.row[unwrap(col) + 1]))))
           ELSE IF unwrap(row.row[unwrap(col) + 1]) = << 255 >>
           THEN r = RErr("Decode")
           ELSE r = ROk(Some(MySqlValue_Text(
                                 unwrap(row.row[unwrap(col) + 1]))))

\* C15 witness: the second column of a text row, two bytes of UTF-8, was
\* read by its name
C15_Witness ==
    /\ CallsOf("get_raw") # {}
    /\ ~unwrap(mysql_row).binary
    /\ outcome[1].arg = ByName("n")
    /\ outcome[1].result = ROk(Some(MySqlValue_Text(<< 195, 169 >>)))

\* C16: a next() call of a MySQL cursor that has its connection returns a
\* row, the end of the stream or a protocol error, and the first such call
\* executes the pending query, which is then no longer pending.
C16_MySqlCursorContract ==
    \A k \in CallsOf("next") :
        outcome[k].result.err # "Connectivity" =>
            /\ outcome[k].result.res \in {"Ok", "Err"}
            /\ unwrap(mysql_cursor).query = None

\* C17: an unprepared query whose response has no description and no rows
\* (the empty query among them) completes without error: the first next()
\* call returns the end of the stream, not a protocol error.
C17_NoResultQueryCompletes ==
    ( /\ live /\ hist.sent /\ hist.clean
      /\ hist.statement = None
      /\ ~hist.shape.described /\ hist.shape.rows = 0 /\ hist.shape.plain
      /\ Len(Reads) >= 1 )
    => Reads[1] = Ok_None

\* The names of the fields, and the last position a name has
NamesOf(fields) ==
    { unwrap(fields[i].name) : i \in { j \in 1..Len(fields) :
                                          fields[j].name # None } }

LastOf(fields, name) ==
    CHOOSE i \in 1..Len(fields) :
        /\ fields[i].name = Some(name)
        /\ \A j \in (i + 1)..Len(fields) : fields[j].name # Some(name)

\* C18: the metadata describe builds from the first description message:
\* for a row-description of n fields the format list has the n declared
\* formats in order and the column map has name -> i for the named fields
\* only, the larger index when two fields share a name; for no-data both
\* are empty.
C18_DescribeBuildsMetadata ==
    ( /\ live /\ hist.sent /\ hist.clean /\ ~hist.hit
      /\ hist.shape.first # None )
    => /\ hist.published
       /\ LET m == unwrap(hist.shape.first)
              columns == arcs[Cursor.columns]
              formats == arcs[Cursor.formats]
          IN IF m.tag = "NoData"
             THEN columns = EmptyMap /\ formats = << >>
             ELSE /\ Len(formats) = Len(m.fields)
                  /\ \A i \in 1..Len(m.fields) :
                        formats[i] = m.fields[i].type_format
                  /\ DOMAIN columns = NamesOf(m.fields)
                  /\ \A name \in NamesOf(m.fields) :
                        columns[name] = LastOf(m.fields, name) - 1

\* C18 witness: a row-description of three fields, two of them named id,
\* was read behind the acknowledgements and gave id the index 2
C18_Witness ==
    /\ live /\ hist.sent /\ hist.clean /\ ~hist.hit
    /\ hist.statement # None
    /\ hist.shape.first # None
    /\ unwrap(hist.shape.first).tag = "RowDescription"
    /\ Len(unwrap(hist.shape.first).fields) = 3
    /\ hist.published
    /\ arcs[Cursor.columns]["id"] = 2

\* The unquoted text fields: the strings "a" and "ab"
UnquotedShapes == { StrOf(<< 97 >>), StrOf(<< 97, 98 >>) }

\* C21: of a text record of k unquoted fields the i-th decode call hands
\* the field decoder the complete text of the i-th field, every character
\* of it, at any position, the last one included, so that the values are
\* those the binary form of the record decodes to.
C21_TextFieldsComplete ==
    ( /\ WholeText
      /\ \A k \in 1..Len(input) : input[k] \in UnquotedShapes )
    => /\ DecodedAsSent
       /\ \A k \in 1..Len(handed) :
             handed[k] = Called(Some(Text(input[k].bytes)))

\* C22: a next() call that fails to resolve its connection returns the
\* connectivity error and nothing else happens: the pending query, the
\* column map and the format list of the cursor are unchanged, nothing is
\* run and no message is read, and the query is still pending.
C22_Step ==
    ( /\ live /\ pg_cursor' # None
      /\ Len(hist'.outcomes) = Len(hist.outcomes) + 1
      /\ hist'.outcomes[Len(hist'.outcomes)] = Err("Connectivity") )
    => /\ pg_cursor' = pg_cursor
       /\ stream' = stream
       /\ arcs' = arcs
       /\ cache_statement_columns' = cache_statement_columns
       /\ cache_statement_formats' = cache_statement_formats
       /\ hist'.runs = hist.runs
       /\ hist'.describes = hist.describes

C22_ResolveFailureChangesNothing == [][C22_Step]_vars

\* C22 witness: the first next() call failed to resolve the connection,
\* and the second executed the query and returned a row
C22_Witness ==
    /\ live /\ Len(Outcomes) >= 2
    /\ Outcomes[1] = Err("Connectivity")
    /\ Outcomes[2].kind = "Row"
    /\ hist.runs = 1

\* The step executed a prepared statement that was not in the cache, and
\* its describe failed
DescribeFailedOnMiss ==
    /\ live /\ pg_cursor' # None
    /\ ~hist.sent /\ hist'.sent
    /\ hist'.statement # None
    /\ hist'.describes = 1
    /\ ~hist'.published

\* C23: when the describe of a prepared statement fails on a cache miss,
\* neither table of the cache gains an entry, the cursor keeps its empty
\* initial column map and format list, and a later execution of the same
\* identifier describes again.
C23_Step ==
    /\ DescribeFailedOnMiss =>
          /\ cache_statement_columns' = cache_statement_columns
          /\ cache_statement_formats' = cache_statement_formats
          /\ unwrap(pg_cursor').columns = Cursor.columns
          /\ unwrap(pg_cursor').formats = Cursor.formats
          /\ arcs'[Cursor.columns] = EmptyMap
          /\ arcs'[Cursor.formats] = << >>
    /\ ( /\ live /\ pg_cursor' # None
         /\ ~hist.sent /\ hist'.sent
         /\ hist'.statement # None
         /\ past[unwrap(hist'.statement)].failed
         /\ past[unwrap(hist'.statement)].published = {} ) =>
          /\ ~hist'.hit
          /\ hist'.describes = 1

C23_FailedDescribeLeavesCacheUnchanged == [][C23_Step]_vars

\* C23 witness: the describe of a statement failed for a cursor since
\* dropped, and a later cursor executed the statement, described it and
\* yielded a row
C23_Witness ==
    /\ live /\ hist.sent /\ hist.statement # None
    /\ past[unwrap(hist.statement)].failed
    /\ past[unwrap(hist.statement)].published = {}
    /\ hist.describes = 1 /\ hist.published
    /\ \E k \in 1..Len(Outcomes) : Outcomes[k].kind = "Row"

\* Every index of the column map c is a position of the format list f
Consistent(c, f) ==
    \A name \in DOMAIN arcs[c] : arcs[c][name] < Len(arcs[f])

\* C24: every pair of column map and format list that a cursor holds, a
\* yielded row carries or the statement cache stores is consistent: the
\* indexes of the map are positions of the list; and the two cache entries
\* of an identifier were stored together by one describe sequence.
C24_MetadataPairsConsistent ==
    /\ live => Consistent(Cursor.columns, Cursor.formats)
    /\ \A k \in 1..Len(Outcomes) :
          Outcomes[k].kind = "Row" =>
              Consistent(unwrap(Outcomes[k].row).columns,
                         unwrap(Outcomes[k].row).formats)
    /\ DOMAIN cache_statement_columns = DOMAIN cache_statement_formats
    /\ \A id \in DOMAIN cache_statement_columns :
          /\ Consistent(cache_statement_columns[id],
                        cache_statement_formats[id])
          /\ cache_statement_formats[id] = cache_statement_columns[id] + 1

\* C24 witness: a statement is in the cache with a column map of two
\* names, and a cursor that found it there yielded a row carrying it
C24_Witness ==
    /\ live /\ hist.hit
    /\ unwrap(hist.statement) \in DOMAIN cache_statement_columns
    /\ Cursor.columns = cache_statement_columns[unwrap(hist.statement)]
    /\ Cardinality(DOMAIN arcs[Cursor.columns]) = 2
    /\ \E k \in 1..Len(Outcomes) :
          /\ Outcomes[k].kind = "Row"
          /\ unwrap(Outcomes[k].row).columns = Cursor.columns

====
